---- MODULE Spec2Model ----
(***************************************************************************)
(* A model of src/app.py: the word-submission and voting handlers of the   *)
(* rap freestyle contributor, acting on the two MongoDB collections        *)
(* rap_words and generation_rounds.                                        *)
(*                                                                         *)
(* A document's _id is its position in its collection (documents are never *)
(* deleted, so the position is stable).  A field that a document does not  *)
(* have is absent from the record's DOMAIN, as in the store.  A vote on a  *)
(* word carries its timestamp, which the sort of get_current_round_words   *)
(* compares; created_at and the timestamp of a vote on a round are left    *)
(* out: nothing reads them.                                                *)
(*                                                                         *)
(* Three specifications share the state:                                   *)
(*   SpecSeq    every handler runs to completion as one action;            *)
(*   SpecRound  the same handlers during the life of one round, without    *)
(*              the external process, with room for more votes on words;   *)
(*   Spec       the sessions interleave, one store operation per step.     *)
(***************************************************************************)
EXTENDS Integers, Sequences, FiniteSets, Bags, TLC

\* src/app.py:13-14
BASE_PROMPT == "Create a cool rap song with the following words that must be in it: "
CHAR_LIMIT == 200

\* Bounds of the model.
MaxStore == 4
MaxRuns == 3
MaxWordVotes == 3
TrueReturnsCap == 2

\* The browser sessions; a session's user_id (src/app.py:23-24) is its name.
Sessions == {"u1", "u2"}

\* The texts a user may submit: 65 and 66 characters, so that two of them
\* land on 199, 200 or 201 characters of prompt.
WordA == "skrrtskrrtskrrtskrrtskrrtskrrtskrrtskrrtskrrtskrrtskrrtskrrtskrrt"
WordB == "brrrapbrrrapbrrrapbrrrapbrrrapbrrrapbrrrapbrrrapbrrrapbrrrapbrrrap"
Words == {WordA, WordB}

VARIABLES
  rounds_collection,  \* generation_rounds: a sequence of round documents
  words_collection,   \* rap_words: a sequence of word documents
  pc,                 \* per session: the store operation its call is at
  frame,              \* per session: the locals of its call in progress
  runs,               \* the number of page runs the sessions have started
  true_returns,       \* a bag of <<user_id, round _id>>: how often vote_for_song returned True (capped)
  last                \* in SpecSeq: the handler that returned most recently, with its return value

vars == <<rounds_collection, words_collection, pc, frame, runs, true_returns, last>>

----------------------------------------------------------------------------
(* Store operations and pure helpers *)

RoundIds == 1..Len(rounds_collection)
WordIds == 1..Len(words_collection)

HasField(doc, f) == f \in DOMAIN doc

\* update_one(..., {'$set': {f: v}}) on one document: sets or creates the field.
SetField(doc, f, v) == (f :> v) @@ doc

\* update_one({'_id': id}, {'$set': {f: v}}): no document matched, no change.
update_set(coll, id, f, v) ==
  IF id \in 1..Len(coll) THEN [coll EXCEPT ![id] = SetField(@, f, v)] ELSE coll

\* An update that sets the votes field to the new vote alone.
update_set_vote(coll, id, vote) ==
  IF id \in 1..Len(coll) THEN [coll EXCEPT ![id] = SetField(@, "votes", <<vote>>)] ELSE coll

\* update_one({'_id': id}, {'$push': {'votes': vote}})
update_push_vote(coll, id, vote) ==
  IF id \in 1..Len(coll)
  THEN [coll EXCEPT ![id] =
          SetField(@, "votes", Append(IF HasField(@, "votes") THEN @.votes ELSE <<>>, vote))]
  ELSE coll

\* words_collection.find({'round_id': id}): the matching word _ids, in store order.
RECURSIVE find_words(_, _)
find_words(n, id) ==
  IF n = 0 THEN <<>>
  ELSE IF words_collection[n].round_id = id
       THEN Append(find_words(n - 1, id), n)
       ELSE find_words(n - 1, id)

WordDocs(ids) == [i \in 1..Len(ids) |-> words_collection[ids[i]]]

\* " ".join(word['word'] for word in words)
RECURSIVE join(_)
join(ws) ==
  IF Len(ws) = 0 THEN ""
  ELSE IF Len(ws) = 1 THEN ws[1].word
  ELSE ws[1].word \o " " \o join(Tail(ws))

\* The prompt built with a separator after the base prompt as well.
calculate_prompt_length_extra_space(ws) ==
  IF Len(ws) = 0 THEN Len(BASE_PROMPT)
  ELSE Len(BASE_PROMPT \o " " \o join(ws))

\* src/app.py:93-100
calculate_prompt_length(ws) ==
  IF Len(ws) = 0 THEN Len(BASE_PROMPT)
  ELSE LET words_text == join(ws)
           full_prompt == BASE_PROMPT \o words_text
       IN  Len(full_prompt)

\* rounds_collection.find_one({'status': 'active'}): the first match, 0 for None.
find_one_active ==
  IF \E i \in RoundIds : rounds_collection[i].status = "active"
  THEN CHOOSE i \in RoundIds :
         /\ rounds_collection[i].status = "active"
         /\ \A j \in RoundIds : rounds_collection[j].status = "active" => i <= j
  ELSE 0

count_documents == Len(rounds_collection)

\* A round document whose total_chars starts at 0.
round_doc_zero_chars(round_number) ==
  [round_number |-> round_number, status |-> "active", total_chars |-> 0]

\* The round document of src/app.py:114-119.
round_doc(round_number) ==
  [round_number |-> round_number, status |-> "active", total_chars |-> Len(BASE_PROMPT)]

\* A word document that starts with its author's vote.
word_doc_self_vote(word, user_id, round_id) ==
  [word |-> word, votes |-> <<[user_id |-> user_id, timestamp |-> 0]>>, created_by |-> user_id,
   round_id |-> round_id]

\* The word document of src/app.py:38-44.
word_doc(word, user_id, round_id) ==
  [word |-> word, votes |-> <<>>, created_by |-> user_id, round_id |-> round_id]

vote_doc(user_id) == [user_id |-> user_id]

voters(doc) == IF HasField(doc, "votes")
               THEN {doc.votes[i].user_id : i \in 1..Len(doc.votes)}
               ELSE {}

\* The number of votes in a collection.
RECURSIVE count_votes(_, _)
count_votes(coll, n) ==
  IF n = 0 THEN 0
  ELSE count_votes(coll, n - 1)
       + (IF HasField(coll[n], "votes") THEN Len(coll[n].votes) ELSE 0)

\* The entries of the store, which MaxStore bounds: its documents and votes.
StoreSize == Len(rounds_collection) + Len(words_collection)
             + count_votes(words_collection, Len(words_collection))
             + count_votes(rounds_collection, Len(rounds_collection))

\* datetime.now(UTC) of src/app.py:86 as a logical clock: votes on words are
\* never removed, so their number grows with every vote.
now == count_votes(words_collection, Len(words_collection)) + 1

\* The vote of src/app.py:84-87.
word_vote_doc(user_id) == [user_id |-> user_id, timestamp |-> now]

NoFrame == [op |-> "none"]

Init ==
  /\ rounds_collection = <<>>
  /\ words_collection = <<>>
  /\ pc = [s \in Sessions |-> "idle"]
  /\ frame = [s \in Sessions |-> NoFrame]
  /\ runs = 0
  /\ true_returns = EmptyBag
  /\ last = [op |-> "none"]

\* Counts one more True return of vote_for_song(round_id) to user_id.
count_true(user_id, round_id) ==
  IF CopiesIn(<<user_id, round_id>>, true_returns) < TrueReturnsCap
  THEN true_returns (+) SetToBag({<<user_id, round_id>>})
  ELSE true_returns

----------------------------------------------------------------------------
(* The external process of spec section 4.3: it completes the active round  *)
(* and attaches the generated songs, writing both directly into the store. *)

complete_round(id) ==
  /\ rounds_collection[id].status = "active"
  /\ rounds_collection' = update_set(rounds_collection, id, "status", "completed")
  /\ UNCHANGED <<words_collection, pc, frame, runs, true_returns, last>>

GeneratedSongs == <<[lyric |-> "lyric 1", audio_url |-> "url 1"],
                    [lyric |-> "lyric 2", audio_url |-> "url 2"]>>

generate_songs(id) ==
  /\ rounds_collection[id].status = "completed"
  /\ ~HasField(rounds_collection[id], "generated_songs")
  /\ rounds_collection' = update_set(rounds_collection, id, "generated_songs", GeneratedSongs)
  /\ UNCHANGED <<words_collection, pc, frame, runs, true_returns, last>>

External ==
  \/ \E id \in RoundIds : complete_round(id)
  \/ \E id \in RoundIds : generate_songs(id)

----------------------------------------------------------------------------
(* The handlers, each run to completion *)

get_current_round(s) ==
  LET found == find_one_active IN
  /\ IF found # 0
     THEN /\ last' = [op |-> "get_current_round", ret |-> found]
          /\ UNCHANGED rounds_collection
     ELSE /\ StoreSize < MaxStore
          /\ rounds_collection' =
               Append(rounds_collection, round_doc(count_documents + 1))
          /\ last' = [op |-> "get_current_round", ret |-> Len(rounds_collection) + 1]
  /\ UNCHANGED <<words_collection, pc, frame, runs, true_returns>>

\* The comparison of src/app.py:35 written off by one.
exceeds_limit_off_by_one(total) == total > CHAR_LIMIT + 1

\* src/app.py:35
exceeds_limit(total) == total > CHAR_LIMIT

LimitMessage == "Adding this word would exceed the character limit"
AddedMessage == "Word added successfully"

\* The length of the prompt as stored, the candidate word forgotten.
new_total_length_stale(word, round_id) ==
  calculate_prompt_length(WordDocs(find_words(Len(words_collection), round_id)))

\* src/app.py:28-33: the length of the prompt with the candidate word appended.
new_total_length(word, round_id) ==
  LET current_words == WordDocs(find_words(Len(words_collection), round_id))
      new_words == Append(current_words, [word |-> word])
  IN  calculate_prompt_length(new_words)

add_word(s, word, round_id) ==
  LET total == new_total_length(word, round_id) IN
  /\ IF exceeds_limit(total)
     THEN /\ last' = [op |-> "add_word", ret |-> <<FALSE, LimitMessage>>]
          /\ UNCHANGED <<rounds_collection, words_collection>>
     ELSE /\ StoreSize < MaxStore
          /\ words_collection' = Append(words_collection, word_doc(word, s, round_id))
          /\ rounds_collection' =
               update_set(rounds_collection, round_id, "total_chars", total)
          /\ last' = [op |-> "add_word", ret |-> <<TRUE, AddedMessage>>]
  /\ UNCHANGED <<pc, frame, runs, true_returns>>

vote_for_word(s, word_id) ==
  LET word == words_collection[word_id] IN
  /\ IF s \notin voters(word)
     THEN words_collection' = update_push_vote(words_collection, word_id, word_vote_doc(s))
     ELSE UNCHANGED words_collection
  /\ last' = [op |-> "vote_for_word"]
  /\ UNCHANGED <<rounds_collection, pc, frame, runs, true_returns>>

\* The condition of src/app.py:56 without its generated_songs half.
round_exists(round_id) == round_id \in RoundIds

\* src/app.py:55-56: the round is there and has its generated_songs.
round_has_songs(round_id) ==
  /\ round_id \in RoundIds
  /\ HasField(rounds_collection[round_id], "generated_songs")

vote_for_song(s, round_id) ==
  /\ IF ~round_has_songs(round_id)
     THEN /\ last' = [op |-> "vote_for_song", ret |-> FALSE]
          /\ UNCHANGED <<rounds_collection, true_returns>>
     ELSE LET round == rounds_collection[round_id]
              initialised == IF ~HasField(round, "votes")
                             THEN update_set(rounds_collection, round_id, "votes", <<>>)
                             ELSE rounds_collection
          IN
          IF s \notin voters(round)
          THEN /\ StoreSize < MaxStore
               /\ rounds_collection' = update_push_vote(initialised, round_id, vote_doc(s))
               /\ true_returns' = count_true(s, round_id)
               /\ last' = [op |-> "vote_for_song", ret |-> TRUE]
          ELSE /\ rounds_collection' = initialised
               /\ last' = [op |-> "vote_for_song", ret |-> FALSE]
               /\ UNCHANGED true_returns
  /\ UNCHANGED <<words_collection, pc, frame, runs>>

\* The sort key with the round number ascending: (-vote_count, round_number).
key_less_round_ascending(a, b) ==
  \/ -a.vote_count < -b.vote_count
  \/ /\ a.vote_count = b.vote_count
     /\ a.round_number < b.round_number

\* src/app.py:133: the sort key (-vote_count, -round_number), compared as tuples.
key_less(a, b) ==
  \/ -a.vote_count < -b.vote_count
  \/ /\ a.vote_count = b.vote_count
     /\ -a.round_number < -b.round_number

\* list.sort is stable: x goes after every element whose key is not greater.
RECURSIVE insert_sorted(_, _)
insert_sorted(x, sorted) ==
  IF Len(sorted) = 0 THEN <<x>>
  ELSE IF key_less(x, Head(sorted)) THEN <<x>> \o sorted
  ELSE <<Head(sorted)>> \o insert_sorted(x, Tail(sorted))

RECURSIVE sort_rounds(_)
sort_rounds(list) ==
  IF Len(list) = 0 THEN <<>>
  ELSE insert_sorted(list[Len(list)], sort_rounds(SubSeq(list, 1, Len(list) - 1)))

\* src/app.py:126-130: the completed rounds in store order, each with its _id
\* and its vote_count.
RECURSIVE find_completed(_)
find_completed(n) ==
  IF n = 0 THEN <<>>
  ELSE IF rounds_collection[n].status = "completed"
       THEN Append(find_completed(n - 1),
                   SetField(SetField(rounds_collection[n], "_id", n), "vote_count",
                            IF HasField(rounds_collection[n], "votes")
                            THEN Len(rounds_collection[n].votes) ELSE 0))
       ELSE find_completed(n - 1)

previous_rounds == sort_rounds(find_completed(Len(rounds_collection)))

get_previous_rounds(s) ==
  /\ last' = [op |-> "get_previous_rounds", ret |-> previous_rounds]
  /\ UNCHANGED <<rounds_collection, words_collection, pc, frame, runs, true_returns>>

\* The user ids in the order of their strings.
UserOrder == <<"u1", "u2">>

user_rank(u) == CHOOSE i \in 1..Len(UserOrder) : UserOrder[i] = u

\* The store's comparison of two votes (embedded documents): field by field
\* in the order of src/app.py:84-87, user_id and then timestamp.
vote_less(a, b) ==
  \/ user_rank(a.user_id) < user_rank(b.user_id)
  \/ /\ a.user_id = b.user_id
     /\ a.timestamp < b.timestamp

\* The key of a descending sort on an array field: its largest element.
RECURSIVE max_vote(_)
max_vote(votes) ==
  IF Len(votes) = 1 THEN votes[1]
  ELSE LET m == max_vote(Tail(votes))
       IN  IF vote_less(m, votes[1]) THEN votes[1] ELSE m

\* sort([('votes', -1)]) of src/app.py:106: a goes before b when a's key is
\* the greater; an empty array is below every non-empty one.
votes_key_greater(a, b) ==
  /\ Len(a.votes) > 0
  /\ \/ Len(b.votes) = 0
     \/ vote_less(max_vote(b.votes), max_vote(a.votes))

\* Words of equal key stay in store order.
RECURSIVE insert_by_votes(_, _)
insert_by_votes(x, sorted) ==
  IF Len(sorted) = 0 THEN <<x>>
  ELSE IF votes_key_greater(x, Head(sorted)) THEN <<x>> \o sorted
  ELSE <<Head(sorted)>> \o insert_by_votes(x, Tail(sorted))

RECURSIVE sort_by_votes(_)
sort_by_votes(list) ==
  IF Len(list) = 0 THEN <<>>
  ELSE insert_by_votes(list[Len(list)], sort_by_votes(SubSeq(list, 1, Len(list) - 1)))

\* src/app.py:104-106: the round's words, each with its _id, sorted.
current_round_words(round_id) ==
  LET ids == find_words(Len(words_collection), round_id)
  IN  sort_by_votes([i \in 1..Len(ids) |-> SetField(words_collection[ids[i]], "_id", ids[i])])

get_current_round_words(s, round_id) ==
  /\ last' = [op |-> "get_current_round_words", ret |-> current_round_words(round_id)]
  /\ UNCHANGED <<rounds_collection, words_collection, pc, frame, runs, true_returns>>

\* src/app.py:136-143
current_prompt(round_id) ==
  LET words == current_round_words(round_id)
  IN  IF Len(words) = 0 THEN BASE_PROMPT
      ELSE LET words_text == join(words) IN BASE_PROMPT \o words_text

get_current_prompt(s, round_id) ==
  /\ last' = [op |-> "get_current_prompt", ret |-> current_prompt(round_id)]
  /\ UNCHANGED <<rounds_collection, words_collection, pc, frame, runs, true_returns>>

SeqNext ==
  \/ \E s \in Sessions : get_current_round(s)
  \/ \E s \in Sessions, word \in Words, round_id \in RoundIds : add_word(s, word, round_id)
  \/ \E s \in Sessions, word_id \in WordIds :
       vote_for_word(s, word_id) /\ StoreSize' <= MaxStore
  \/ \E s \in Sessions, round_id \in 1..(Len(rounds_collection) + 1) : vote_for_song(s, round_id)
  \/ \E s \in Sessions : get_previous_rounds(s)
  \/ \E s \in Sessions, round_id \in RoundIds : get_current_round_words(s, round_id)
  \/ \E s \in Sessions, round_id \in RoundIds : get_current_prompt(s, round_id)
  \/ External

SpecSeq == Init /\ [][SeqNext]_vars

\* The votes on words in the store.
WordVotes == count_votes(words_collection, Len(words_collection))

\* One round in progress: the page's handlers for the current round.
RoundNext ==
  \/ \E s \in Sessions : get_current_round(s)
  \/ \E s \in Sessions, word \in Words, round_id \in RoundIds : add_word(s, word, round_id)
  \/ \E s \in Sessions, word_id \in WordIds :
       vote_for_word(s, word_id) /\ WordVotes' <= MaxWordVotes
  \/ \E s \in Sessions, round_id \in RoundIds : get_current_round_words(s, round_id)
  \/ \E s \in Sessions, round_id \in RoundIds : get_current_prompt(s, round_id)

SpecRound == Init /\ [][RoundNext]_vars

----------------------------------------------------------------------------
(* The handlers as the sessions run them concurrently: one store operation  *)
(* per step.  A session runs the page script: get_current_round            *)
(* (src/app.py:149), then at most one of add_word on that round (line 172), *)
(* vote_for_word (line 196) and vote_for_song (line 246).                   *)

Goto(s, label, locals) ==
  /\ pc' = [pc EXCEPT ![s] = label]
  /\ frame' = [frame EXCEPT ![s] = locals]

\* The handler returns and the page run ends.  The return values that matter
\* to a concurrent run are kept where the script keeps them: the round of
\* get_current_round in the frame, a True of vote_for_song in true_returns.
Return(s) == Goto(s, "idle", NoFrame)

\* src/app.py:110
get_current_round_find_one(s) ==
  LET found == find_one_active IN
  /\ pc[s] = "idle"
  /\ runs < MaxRuns
  /\ runs' = runs + 1
  /\ IF found # 0
     THEN Goto(s, "page", [current_round |-> found])
     ELSE /\ StoreSize < MaxStore
          /\ Goto(s, "get_current_round_count", NoFrame)
  /\ UNCHANGED <<rounds_collection, words_collection, true_returns, last>>

\* src/app.py:115
get_current_round_count(s) ==
  /\ pc[s] = "get_current_round_count"
  /\ Goto(s, "get_current_round_insert", [round_number |-> count_documents + 1])
  /\ UNCHANGED <<rounds_collection, words_collection, runs, true_returns, last>>

\* src/app.py:120-122
get_current_round_insert(s) ==
  /\ pc[s] = "get_current_round_insert"
  /\ rounds_collection' = Append(rounds_collection, round_doc(frame[s].round_number))
  /\ Goto(s, "page", [current_round |-> Len(rounds_collection) + 1])
  /\ UNCHANGED <<words_collection, runs, true_returns, last>>

\* The page run ends without a submission or a vote.
page_done(s) ==
  /\ pc[s] = "page"
  /\ Goto(s, "idle", NoFrame)
  /\ UNCHANGED <<rounds_collection, words_collection, runs, true_returns, last>>

\* src/app.py:28-36
add_word_find(s, word) ==
  LET round_id == frame[s].current_round
      total == new_total_length(word, round_id)
  IN
  /\ pc[s] = "page"
  /\ IF exceeds_limit(total)
     THEN Return(s)
     ELSE /\ StoreSize < MaxStore
          /\ Goto(s, "add_word_insert",
                  [current_round |-> round_id, word |-> word, new_total_length |-> total])
  /\ UNCHANGED <<rounds_collection, words_collection, runs, true_returns, last>>

\* src/app.py:38-45
add_word_insert(s) ==
  /\ pc[s] = "add_word_insert"
  /\ words_collection' =
       Append(words_collection, word_doc(frame[s].word, s, frame[s].current_round))
  /\ pc' = [pc EXCEPT ![s] = "add_word_update"]
  /\ UNCHANGED <<rounds_collection, frame, runs, true_returns, last>>

\* An update that writes the length of the prompt as stored at the update.
add_word_update_recomputed(s) ==
  /\ pc[s] = "add_word_update"
  /\ rounds_collection' =
       update_set(rounds_collection, frame[s].current_round, "total_chars",
                  calculate_prompt_length(
                    WordDocs(find_words(Len(words_collection), frame[s].current_round))))
  /\ Return(s)
  /\ UNCHANGED <<words_collection, runs, true_returns, last>>

\* src/app.py:47-51
add_word_update(s) ==
  /\ pc[s] = "add_word_update"
  /\ rounds_collection' = update_set(rounds_collection, frame[s].current_round,
                                     "total_chars", frame[s].new_total_length)
  /\ Return(s)
  /\ UNCHANGED <<words_collection, runs, true_returns, last>>

\* vote_for_word without the membership test of src/app.py:83: it always pushes.
vote_for_word_find_one_unchecked(s, word_id) ==
  /\ pc[s] = "page"
  /\ StoreSize < MaxStore
  /\ Goto(s, "vote_for_word_push", [word_id |-> word_id])
  /\ UNCHANGED <<rounds_collection, words_collection, runs, true_returns, last>>

\* src/app.py:82-83
vote_for_word_find_one(s, word_id) ==
  /\ pc[s] = "page"
  /\ IF s \notin voters(words_collection[word_id])
     THEN /\ StoreSize < MaxStore
          /\ Goto(s, "vote_for_word_push", [word_id |-> word_id])
     ELSE Return(s)
  /\ UNCHANGED <<rounds_collection, words_collection, runs, true_returns, last>>

\* src/app.py:84-91
vote_for_word_push(s) ==
  /\ pc[s] = "vote_for_word_push"
  /\ words_collection' = update_push_vote(words_collection, frame[s].word_id, word_vote_doc(s))
  /\ Return(s)
  /\ UNCHANGED <<rounds_collection, runs, true_returns, last>>

\* vote_for_song without the membership test of src/app.py:68.
vote_for_song_find_one_unchecked(s, round_id) ==
  /\ pc[s] = "page"
  /\ IF ~round_has_songs(round_id)
     THEN Return(s)
     ELSE /\ StoreSize < MaxStore
          /\ IF ~HasField(rounds_collection[round_id], "votes")
             THEN Goto(s, "vote_for_song_init", [round_id |-> round_id])
             ELSE Goto(s, "vote_for_song_push", [round_id |-> round_id])
  /\ UNCHANGED <<rounds_collection, words_collection, runs, true_returns, last>>

\* src/app.py:55-60 and, when the votes field is there, the test of line 68
vote_for_song_find_one(s, round_id) ==
  /\ pc[s] = "page"
  /\ IF ~round_has_songs(round_id)
     THEN Return(s)
     ELSE LET round == rounds_collection[round_id] IN
          IF ~HasField(round, "votes")
          THEN /\ StoreSize < MaxStore
               /\ Goto(s, "vote_for_song_init", [round_id |-> round_id])
          ELSE IF s \notin voters(round)
          THEN /\ StoreSize < MaxStore
               /\ Goto(s, "vote_for_song_push", [round_id |-> round_id])
          ELSE Return(s)
  /\ UNCHANGED <<rounds_collection, words_collection, runs, true_returns, last>>

\* src/app.py:61-68: the local round['votes'] is [], so the test of line 68 passes.
vote_for_song_init(s) ==
  /\ pc[s] = "vote_for_song_init"
  /\ rounds_collection' = update_set(rounds_collection, frame[s].round_id, "votes", <<>>)
  /\ pc' = [pc EXCEPT ![s] = "vote_for_song_push"]
  /\ UNCHANGED <<words_collection, frame, runs, true_returns, last>>

\* src/app.py:69-77
vote_for_song_push(s) ==
  /\ pc[s] = "vote_for_song_push"
  /\ rounds_collection' = update_push_vote(rounds_collection, frame[s].round_id, vote_doc(s))
  /\ true_returns' = count_true(s, frame[s].round_id)
  /\ Return(s)
  /\ UNCHANGED <<words_collection, runs, last>>

Next ==
  \/ \E s \in Sessions : get_current_round_find_one(s)
  \/ \E s \in Sessions : get_current_round_count(s)
  \/ \E s \in Sessions : get_current_round_insert(s)
  \/ \E s \in Sessions : page_done(s)
  \/ \E s \in Sessions, word \in Words : add_word_find(s, word)
  \/ \E s \in Sessions : add_word_insert(s)
  \/ \E s \in Sessions : add_word_update(s)
  \/ \E s \in Sessions, word_id \in WordIds : vote_for_word_find_one(s, word_id)
  \/ \E s \in Sessions : vote_for_word_push(s)
  \/ \E s \in Sessions, round_id \in 1..(Len(rounds_collection) + 1) :
       vote_for_song_find_one(s, round_id)
  \/ \E s \in Sessions : vote_for_song_init(s)
  \/ \E s \in Sessions : vote_for_song_push(s)
  \/ External

Spec == Init /\ [][Next]_vars

----------------------------------------------------------------------------
(* Properties *)

RoundWords(round_id) == WordDocs(find_words(Len(words_collection), round_id))

\* The prompt of a round as stored: BASE_PROMPT followed by the round's words
\* joined by single spaces.
StoredPrompt(round_id) == BASE_PROMPT \o join(RoundWords(round_id))

ActiveRounds == {id \in RoundIds : rounds_collection[id].status = "active"}

\* C1: under sessions whose store operations interleave, at most one round
\* has status 'active' in every reachable state.
C1_AtMostOneActive == Cardinality(ActiveRounds) <= 1

\* C2: when every add_word call runs to completion before the next begins,
\* the prompt formed from a round's stored words never exceeds CHAR_LIMIT.
C2_StoredPromptWithinLimit ==
  \A id \in RoundIds : Len(StoredPrompt(id)) <= CHAR_LIMIT

\* A round whose stored prompt fills the limit exactly, with two words.
C2_Witness ==
  \E id \in RoundIds :
    /\ Len(RoundWords(id)) = 2
    /\ Len(StoredPrompt(id)) = CHAR_LIMIT

\* The total add_word(word, round) computes, stated from the store.
TotalWith(word, round_id) ==
  calculate_prompt_length(Append(RoundWords(round_id), [word |-> word]))

\* C3: an add_word call whose new total is greater than 200 returns
\* (False, "Adding this word would exceed the character limit") and changes
\* neither collection.
C3_OverLimitRejected ==
  [][\A s \in Sessions, word \in Words, id \in RoundIds :
       (last'.op = "add_word" /\ add_word(s, word, id) /\ TotalWith(word, id) > 200)
       => /\ last' = [op |-> "add_word",
                      ret |-> <<FALSE, "Adding this word would exceed the character limit">>]
          /\ words_collection' = words_collection
          /\ rounds_collection' = rounds_collection]_vars

\* add_word has just rejected the one word that would make the total 201:
\* the store holds a single word.
C3_Witness ==
  /\ last = [op |-> "add_word",
             ret |-> <<FALSE, "Adding this word would exceed the character limit">>]
  /\ Len(words_collection) = 1
  /\ \E word \in Words, id \in RoundIds : TotalWith(word, id) = 201

\* C4: an add_word call whose new total is at most 200 returns
\* (True, "Word added successfully"), inserts exactly one word document (the
\* text, no votes, the caller as created_by, the round as round_id) and sets
\* the round's total_chars to the new total, whether or not the text is
\* already in the round.
C4_WithinLimitAdded ==
  [][\A s \in Sessions, word \in Words, id \in RoundIds :
       (last'.op = "add_word" /\ add_word(s, word, id) /\ TotalWith(word, id) <= 200)
       => /\ last' = [op |-> "add_word", ret |-> <<TRUE, "Word added successfully">>]
          /\ words_collection' =
               Append(words_collection,
                      [word |-> word, votes |-> <<>>, created_by |-> s, round_id |-> id])
          /\ rounds_collection' =
               [rounds_collection EXCEPT ![id].total_chars = TotalWith(word, id)]]_vars

\* add_word has just succeeded and a round holds the same text twice.
C4_Witness ==
  /\ last = [op |-> "add_word", ret |-> <<TRUE, "Word added successfully">>]
  /\ \E id \in RoundIds :
       /\ Len(RoundWords(id)) = 2
       /\ RoundWords(id)[1].word = RoundWords(id)[2].word
       /\ rounds_collection[id].total_chars = 199

\* add_word has just succeeded with a new total of exactly 200.
C4_WitnessAtLimit ==
  /\ last = [op |-> "add_word", ret |-> <<TRUE, "Word added successfully">>]
  /\ \E id \in RoundIds : rounds_collection[id].total_chars = 200

VotesBy(doc, user_id) ==
  {i \in 1..Len(doc.votes) : doc.votes[i].user_id = user_id}

C5_OneVotePerUser ==
  \A id \in WordIds, u \in Sessions :
    Cardinality(VotesBy(words_collection[id], u)) <= 1

\* C5: with the sessions' vote_for_word calls interleaved (a session's own
\* calls follow one another), a word's vote list holds at most one entry per
\* user in every reachable state, and a vote_for_word call by a user who is
\* already in the word's vote list makes no write: only a user who is not in
\* the list is ever at the push.
C5_VoteOncePerWord ==
  /\ C5_OneVotePerUser
  /\ \A s \in Sessions :
       pc[s] = "vote_for_word_push"
       => s \notin voters(words_collection[frame[s].word_id])

\* One session has voted for a word and the other is at its push for the
\* same word.
C5_Witness ==
  \E id \in WordIds, s \in Sessions, t \in Sessions :
    /\ voters(words_collection[id]) = {s}
    /\ pc[t] = "vote_for_word_push"
    /\ frame[t].word_id = id

\* C6: vote_for_song(r) returns True to a user exactly once: after the first
\* True, no later call by that user on r returns True.
C6_TrueExactlyOnce ==
  \A s \in Sessions, id \in RoundIds : CopiesIn(<<s, id>>, true_returns) <= 1

\* C7: vote_for_song(round_id) returns False and changes neither collection
\* when no round has that _id or the round has no generated_songs.
C7_NoSongsNoVote ==
  [][\A s \in Sessions, id \in 1..(Len(rounds_collection) + 1) :
       ( /\ last'.op = "vote_for_song"
         /\ vote_for_song(s, id)
         /\ \/ id \notin RoundIds
            \/ ~HasField(rounds_collection[id], "generated_songs") )
       => /\ last' = [op |-> "vote_for_song", ret |-> FALSE]
          /\ rounds_collection' = rounds_collection
          /\ words_collection' = words_collection]_vars

\* vote_for_song has just returned False while no round has generated_songs,
\* and a round exists.
C7_Witness ==
  /\ last = [op |-> "vote_for_song", ret |-> FALSE]
  /\ Len(rounds_collection) >= 1
  /\ \A id \in RoundIds : ~HasField(rounds_collection[id], "generated_songs")

CompletedRounds == {id \in RoundIds : rounds_collection[id].status = "completed"}

VoteCount(doc) == IF HasField(doc, "votes") THEN Len(doc.votes) ELSE 0

\* The order of C8: more votes first and, among equal votes, the higher round
\* number first.
InVoteOrder(list) ==
  \A i, j \in 1..Len(list) :
    i < j => \/ list[i].vote_count > list[j].vote_count
             \/ /\ list[i].vote_count = list[j].vote_count
                /\ list[i].round_number >= list[j].round_number

ExampleRounds ==
  << [round_number |-> 1, vote_count |-> 3],
     [round_number |-> 2, vote_count |-> 1],
     [round_number |-> 3, vote_count |-> 3] >>

\* C8: get_previous_rounds returns exactly the completed rounds, each with
\* vote_count the length of its votes list (0 when absent), ordered by
\* vote_count descending and then round_number descending; the rounds
\* {#1: 3 votes, #2: 1 vote, #3: 3 votes} come back as [#3, #1, #2].
C8_PreviousRoundsOrdered ==
  LET res == previous_rounds IN
  /\ Len(res) = Cardinality(CompletedRounds)
  /\ {res[i]["_id"] : i \in 1..Len(res)} = CompletedRounds
  /\ \A i \in 1..Len(res) :
       LET doc == rounds_collection[res[i]["_id"]] IN
       /\ res[i].vote_count = VoteCount(doc)
       /\ res[i].round_number = doc.round_number
       /\ res[i].status = "completed"
  /\ InVoteOrder(res)
  /\ sort_rounds(ExampleRounds) = << ExampleRounds[3], ExampleRounds[1], ExampleRounds[2] >>

\* get_previous_rounds has just returned two voted rounds with equal votes,
\* the later round first.
C8_Witness ==
  /\ last.op = "get_previous_rounds"
  /\ last.ret = previous_rounds
  /\ Len(last.ret) = 2
  /\ last.ret[1].vote_count = 1
  /\ last.ret[2].vote_count = 1
  /\ last.ret[1].round_number = 2
  /\ last.ret[2].round_number = 1

RECURSIVE SumLen(_)
SumLen(ws) == IF Len(ws) = 0 THEN 0 ELSE Len(ws[1].word) + SumLen(Tail(ws))

\* " " + word_1 + " " + ... + word_n: a separator before every word.
RECURSIVE Spaced(_)
Spaced(ws) == IF Len(ws) = 0 THEN "" ELSE " " \o ws[1].word \o Spaced(Tail(ws))

\* The word lists calculate_prompt_length is applied to: a round's stored
\* words, and those with a candidate appended.
WordLists ==
  {RoundWords(id) : id \in RoundIds}
    \cup {Append(RoundWords(id), [word |-> w]) : id \in RoundIds, w \in Words}

\* C9 as stated: calculate_prompt_length(W) is the length of the base prompt
\* followed by a separator and a word, for every word of W.
C9_SeparatorBeforeEveryWord ==
  \A ws \in WordLists :
    calculate_prompt_length(ws) = Len(BASE_PROMPT \o Spaced(ws))

\* C9 as amended: calculate_prompt_length(W) is the length of the base prompt,
\* plus the lengths of the words, plus one separator between each two
\* neighbouring words (none before the first).
C9_SeparatorBetweenWords ==
  \A ws \in WordLists :
    calculate_prompt_length(ws) =
      Len(BASE_PROMPT) + SumLen(ws) + (IF Len(ws) = 0 THEN 0 ELSE Len(ws) - 1)

\* A round stores two words and another round none.
C9_Witness ==
  /\ \E id \in RoundIds : Len(RoundWords(id)) = 2
  /\ \E id \in RoundIds : Len(RoundWords(id)) = 0

\* C10: get_current_round returns the active round and changes nothing when
\* there is one; otherwise it inserts exactly one round, active, with
\* total_chars the length of BASE_PROMPT and round_number the number of
\* rounds before the insert plus one, and returns it.
C10_FindOrCreate ==
  [][\A s \in Sessions :
       (last'.op = "get_current_round" /\ get_current_round(s))
       => /\ words_collection' = words_collection
          /\ IF ActiveRounds # {}
             THEN /\ last'.ret \in ActiveRounds
                  /\ rounds_collection' = rounds_collection
             ELSE /\ rounds_collection' =
                       Append(rounds_collection,
                              [round_number |-> Len(rounds_collection) + 1,
                               status |-> "active",
                               total_chars |-> Len(BASE_PROMPT)])
                  /\ last'.ret = Len(rounds_collection) + 1]_vars

\* get_current_round has just created round #2 after round #1 was completed.
C10_Witness ==
  /\ last = [op |-> "get_current_round", ret |-> 2]
  /\ Len(rounds_collection) = 2
  /\ rounds_collection[1].status = "completed"
  /\ rounds_collection[2] = [round_number |-> 2, status |-> "active", total_chars |-> 68]

\* C11: get_current_round_words(round) returns exactly the words of the
\* round, ordered by vote count descending: of any two returned words, the
\* one with more votes comes first.
C11_WordsByVoteCount ==
  \A id \in RoundIds :
    LET res == current_round_words(id) IN
    /\ Len(res) = Len(RoundWords(id))
    /\ {res[i]["_id"] : i \in 1..Len(res)} = {w \in WordIds : words_collection[w].round_id = id}
    /\ \A i, j \in 1..Len(res) : i < j => Len(res[i].votes) >= Len(res[j].votes)

\* C12: with the sessions' vote_for_song calls interleaved (a session's own
\* calls follow one another), a round's vote list holds at most one entry
\* per user in every reachable state.
C12_OneRoundVotePerUser ==
  \A id \in RoundIds, u \in Sessions :
    HasField(rounds_collection[id], "votes")
    => Cardinality(VotesBy(rounds_collection[id], u)) <= 1

\* One session's vote is in a round's list while the other session is at its
\* push for the same round.
C12_Witness ==
  \E id \in RoundIds, s \in Sessions, t \in Sessions :
    /\ s # t
    /\ voters(rounds_collection[id]) = {s}
    /\ pc[t] = "vote_for_song_push"
    /\ frame[t].round_id = id

\* C13: two add_word calls on the same round whose store operations
\* interleave can both pass the limit test against the same stale word list
\* and both insert, leaving the round with a stored prompt longer than 200
\* characters.  Such a state is reachable (C13_Witness), and only that way: a
\* round whose stored prompt is over the limit holds words of two sessions.
C13_OvershootByTwoSessions ==
  \A id \in RoundIds :
    Len(StoredPrompt(id)) > CHAR_LIMIT
    => \E i, j \in 1..Len(RoundWords(id)) :
         RoundWords(id)[i].created_by # RoundWords(id)[j].created_by

\* Both sessions have passed the limit test against the empty word list of
\* the same round and both have inserted: the stored prompt is over 200.
C13_Witness ==
  \E id \in RoundIds :
    /\ \A s \in Sessions :
         /\ pc[s] = "add_word_update"
         /\ frame[s].current_round = id
         /\ frame[s].new_total_length = Len(BASE_PROMPT) + Len(frame[s].word)
         /\ frame[s].new_total_length <= CHAR_LIMIT
    /\ Len(RoundWords(id)) = 2
    /\ Len(StoredPrompt(id)) > 200

\* An add_word call is in progress: it has read the words and not returned.
AddWordInProgress ==
  \E s \in Sessions : pc[s] \in {"add_word_insert", "add_word_update"}

\* C14: whenever no add_word call is in progress, every round's total_chars
\* equals calculate_prompt_length of the words stored for the round, also
\* when the store operations of add_word calls interleave.
C14_TotalCharsIsPromptLength ==
  ~AddWordInProgress
  => \A id \in RoundIds :
       rounds_collection[id].total_chars = calculate_prompt_length(RoundWords(id))

\* C15: a recorded round vote is never lost: once vote_for_song(r) has
\* returned True to user u, u is in r's vote list in every later state, for
\* any interleaving of the other users' vote_for_song calls on r.
C15_VoteNeverLost ==
  \A s \in Sessions, id \in RoundIds :
    CopiesIn(<<s, id>>, true_returns) >= 1 => s \in voters(rounds_collection[id])

\* C16: while an external process may complete a round at any point, every
\* word document a page run inserts goes into a round whose status is
\* 'active' at the moment of the insert.
C16_InsertIntoActiveRound ==
  [][\A s \in Sessions :
       add_word_insert(s)
       => rounds_collection[frame[s].current_round].status = "active"]_vars

\* C17: word documents are append-only: no step removes a word or changes
\* the text, round_id or created_by of one, and the only change to an
\* existing word is vote_for_word appending one entry to the end of that
\* word's vote list, every other word and every round left as they were.
C17_WordsAppendOnly ==
  [][/\ Len(words_collection') >= Len(words_collection)
     /\ \A i \in WordIds :
          \/ words_collection'[i] = words_collection[i]
          \/ /\ Len(words_collection'[i].votes) = Len(words_collection[i].votes) + 1
             /\ \E s \in Sessions :
                   /\ vote_for_word(s, i)
                   /\ words_collection'[i] =
                        [words_collection[i] EXCEPT
                           !.votes = Append(@, words_collection'[i].votes[Len(@) + 1])]
                   /\ words_collection'[i].votes[Len(words_collection[i].votes) + 1].user_id = s
             /\ Len(words_collection') = Len(words_collection)
             /\ \A j \in WordIds : j # i => words_collection'[j] = words_collection[j]
             /\ rounds_collection' = rounds_collection]_vars

\* vote_for_word has just appended a second vote to a word that had one.
C17_Witness ==
  /\ last.op = "vote_for_word"
  /\ \E i \in WordIds :
       /\ Len(words_collection[i].votes) = 2
       /\ words_collection[i].votes[2].timestamp = 2

\* C18: round numbers are unique and sequential: under any interleaving of
\* get_current_round calls and external completions, no two rounds share a
\* round_number and the round_numbers in the store are exactly 1..n.
C18_RoundNumbersSequential ==
  /\ \A i, j \in RoundIds :
       i # j => rounds_collection[i].round_number # rounds_collection[j].round_number
  /\ {rounds_collection[i].round_number : i \in RoundIds} = 1..Len(rounds_collection)

\* C19: the stored total_chars of every round is between the length of
\* BASE_PROMPT and 200 in every reachable state, also when the store
\* operations of add_word calls on a round interleave.
C19_TotalCharsInRange ==
  \A id \in RoundIds :
    /\ rounds_collection[id].total_chars >= Len(BASE_PROMPT)
    /\ rounds_collection[id].total_chars <= 200

\* Two interleaved add_word calls have returned: the stored prompt of the
\* round is over 200 characters and its total_chars is not.
C19_Witness ==
  /\ \A s \in Sessions : pc[s] = "idle"
  /\ \E id \in RoundIds :
       /\ Len(StoredPrompt(id)) > 200
       /\ rounds_collection[id].total_chars > Len(BASE_PROMPT)
       /\ rounds_collection[id].total_chars <= 200

====
